---- MODULE Spec2Model ----
(***************************************************************************)
(* Model of packages/sdk: the product feed schema (feed/types.ts) as it is *)
(* evaluated by the schema combinators it is built from, and the checkout  *)
(* handlers of mcp/index.ts.                                               *)
(*                                                                         *)
(* JavaScript values are tagged records [t |-> typeof, v |-> payload]:     *)
(* a string is a sequence of one-character strings, a number n is the      *)
(* integer n * Scale (so that halves exist), an object is a function from  *)
(* its keys, an array is a sequence.                                       *)
(***************************************************************************)
EXTENDS Integers, Sequences, FiniteSets, TLC

\* ------------------------------------------------------------------ bounds
MaxBad == 2          \* required fields perturbed at once in an input record
MaxVariants == 3     \* entries of an input variants array
MaxBatch == 2        \* records of a batch
MaxCalls == 2        \* handler calls of a session of the MCP client
MaxAmountLen == 6    \* characters of an enumerated amount string
MaxCurrencyLen == 4  \* characters of an enumerated currency string

Scale == 2           \* numbers are counted in halves

\* ------------------------------------------------------------------ values
Undefined == [t |-> "undefined", v |-> 0]
Str(s) == [t |-> "string", v |-> s]
Num(k) == [t |-> "number", v |-> k * Scale]
Half(k) == [t |-> "number", v |-> k]
NaN == [t |-> "nan", v |-> 0]
Bool(b) == [t |-> "boolean", v |-> b]
Obj(f) == [t |-> "object", v |-> f]
Arr(s) == [t |-> "array", v |-> s]

EmptyFcn == [x \in {} |-> 0]

Get(o, k) == IF k \in DOMAIN o THEN o[k] ELSE Undefined

Rep(c, n) == [i \in 1..n |-> c]

\* ------------------------------------------------------------- characters
Digits == {"0", "1", "2", "3", "4", "5", "6", "7", "8", "9"}
Upper == {"A", "B", "C", "D", "E", "F", "G", "H", "I", "J", "K", "L", "M",
          "N", "O", "P", "Q", "R", "S", "T", "U", "V", "W", "X", "Y", "Z"}
Lower == {"a", "b", "c", "d", "e", "f", "g", "h", "i", "j", "k", "l", "m",
          "n", "o", "p", "q", "r", "s", "t", "u", "v", "w", "x", "y", "z"}

AllIn(s, from, to, class) == \A i \in from..to : s[i] \in class

\* mutation: up to three fractional digits, /^\d+(\.\d{1,3})?$/
AmountPatternThreeDigits(s) ==
    \E n \in 1..Len(s) :
        /\ AllIn(s, 1, n, Digits)
        /\ \/ n = Len(s)
           \/ /\ n + 1 <= Len(s)
              /\ s[n + 1] = "."
              /\ Len(s) - (n + 1) \in {1, 2, 3}
              /\ AllIn(s, n + 2, Len(s), Digits)

\* /^\d+(\.\d{1,2})?$/ : a split point n after the integer part
AmountPattern(s) ==
    \E n \in 1..Len(s) :
        /\ AllIn(s, 1, n, Digits)
        /\ \/ n = Len(s)
           \/ /\ n + 1 <= Len(s)
              /\ s[n + 1] = "."
              /\ Len(s) - (n + 1) \in {1, 2}
              /\ AllIn(s, n + 2, Len(s), Digits)

\* /^[A-Z]{3}$/
CurrencyPattern(s) == Len(s) = 3 /\ AllIn(s, 1, 3, Upper)

PatternMatches(pat, s) ==
    CASE pat = "amount" -> AmountPattern(s)
      [] pat = "currency" -> CurrencyPattern(s)

\* mutation: the amount expression written with the g flag
AmountRegExpGlobal == [pat |-> "amount", global |-> TRUE]

\* The two RegExp objects of MoneySchema: their pattern and flags.
AmountRegExp == [pat |-> "amount", global |-> FALSE]
CurrencyRegExp == [pat |-> "currency", global |-> FALSE]

RegExpOf(name) == IF name = "amount" THEN AmountRegExp ELSE CurrencyRegExp

\* RegExp.prototype.test: a global expression starts at its lastIndex and
\* leaves the end of the match (or 0) there; both patterns are anchored at
\* the start, so a search from a later index finds nothing.
RegExpTest(re, s, lastIndex) ==
    LET start == IF re.global THEN lastIndex ELSE 0
        matched == start = 0 /\ PatternMatches(re.pat, s)
    IN  [ok |-> matched,
         lastIndex |-> IF re.global
                       THEN (IF matched THEN Len(s) ELSE 0)
                       ELSE lastIndex]

\* z.string().url(): new URL(s) succeeds. An absolute URL has a scheme of
\* letters before the first ":", and the special schemes need a host.
SchemeEnd(s) ==
    IF \E i \in 1..Len(s) : s[i] = ":"
    THEN CHOOSE i \in 1..Len(s) : s[i] = ":" /\ \A j \in 1..(i - 1) : s[j] # ":"
    ELSE 0

IsSpecialScheme(s, e) ==
    \/ SubSeq(s, 1, e - 1) = <<"h", "t", "t", "p">>
    \/ SubSeq(s, 1, e - 1) = <<"h", "t", "t", "p", "s">>

UrlOk(s) ==
    LET e == SchemeEnd(s)
    IN  /\ e > 1
        /\ AllIn(s, 1, e - 1, Lower \cup Upper)
        /\ IsSpecialScheme(s, e) =>
               \E i \in (e + 1)..Len(s) : s[i] \notin {"/", "\\"}

\* z.string().datetime(): YYYY-MM-DDTHH:MM:SS(.s+)?Z, no offset.
DatetimeOk(s) ==
    /\ Len(s) >= 20
    /\ AllIn(s, 1, 4, Digits) /\ s[5] = "-"
    /\ AllIn(s, 6, 7, Digits) /\ s[8] = "-"
    /\ AllIn(s, 9, 10, Digits) /\ s[11] = "T"
    /\ AllIn(s, 12, 13, Digits) /\ s[14] = ":"
    /\ AllIn(s, 15, 16, Digits) /\ s[17] = ":"
    /\ AllIn(s, 18, 19, Digits)
    /\ s[Len(s)] = "Z"
    /\ \/ Len(s) = 20
       \/ /\ Len(s) >= 22
          /\ s[20] = "."
          /\ AllIn(s, 21, Len(s) - 1, Digits)

\* ---------------------------------------------------------------- issues
Issue(path, code, detail) == [path |-> path, code |-> code, detail |-> detail]

InvalidType(path, v) == Issue(path, "invalid_type", v.t)

\* ------------------------------------------------------ schema descriptors
ZString(checks) == [k |-> "string", checks |-> checks]
ZNumber(checks) == [k |-> "number", checks |-> checks]
ZBoolean == [k |-> "boolean"]
ZEnum(values) == [k |-> "enum", values |-> values]
ZObject(shape) == [k |-> "object", shape |-> shape]
ZArray(element) == [k |-> "array", element |-> element]
ZRecord(element) == [k |-> "record", element |-> element]
\* mutation: .optional() left off a field
OptionalForgotten(inner) == inner

Optional(inner) == [k |-> "optional", inner |-> inner]
Field(name, schema) == [name |-> name, schema |-> schema]

CMax(n) == [c |-> "max", n |-> n]
CLength(n) == [c |-> "length", n |-> n]
CRegex(name) == [c |-> "regex", re |-> name]
CUrl == [c |-> "url"]
CDatetime == [c |-> "datetime"]
CInt == [c |-> "int"]
CMin(n, inclusive) == [c |-> "min", n |-> n, inclusive |-> inclusive]
CMaxNum(n) == [c |-> "maxnum", n |-> n]
CPositive == CMin(0, FALSE)
CNonnegative == CMin(0, TRUE)

\* ----------------------------------------------------- feed/types.ts schema
MoneySchema ==
    ZObject(<<
        Field("amount", ZString(<<CRegex("amount")>>)),
        Field("currency", ZString(<<CLength(3), CRegex("currency")>>))>>)

AvailabilitySchema ==
    ZEnum({<<"i", "n", "_", "s", "t", "o", "c", "k">>,
           <<"o", "u", "t", "_", "o", "f", "_", "s", "t", "o", "c", "k">>,
           <<"p", "r", "e", "o", "r", "d", "e", "r">>,
           <<"b", "a", "c", "k", "o", "r", "d", "e", "r">>,
           <<"d", "i", "s", "c", "o", "n", "t", "i", "n", "u", "e", "d">>})

ConditionSchema ==
    ZEnum({<<"n", "e", "w">>,
           <<"r", "e", "f", "u", "r", "b", "i", "s", "h", "e", "d">>,
           <<"u", "s", "e", "d">>})

AgeGroupSchema ==
    ZEnum({<<"n", "e", "w", "b", "o", "r", "n">>,
           <<"i", "n", "f", "a", "n", "t">>,
           <<"t", "o", "d", "d", "l", "e", "r">>,
           <<"k", "i", "d", "s">>,
           <<"a", "d", "u", "l", "t">>})

GenderSchema ==
    ZEnum({<<"m", "a", "l", "e">>,
           <<"f", "e", "m", "a", "l", "e">>,
           <<"u", "n", "i", "s", "e", "x">>})

ShippingDimensionsSchema ==
    ZObject(<<
        Field("length", ZNumber(<<CPositive>>)),
        Field("width", ZNumber(<<CPositive>>)),
        Field("height", ZNumber(<<CPositive>>)),
        Field("unit", ZEnum({<<"i", "n">>,
                            <<"c", "m">>}))>>)

ShippingWeightSchema ==
    ZObject(<<
        Field("value", ZNumber(<<CPositive>>)),
        Field("unit", ZEnum({<<"l", "b">>,
                            <<"o", "z">>,
                            <<"k", "g">>,
                            <<"g">>}))>>)

VariantSchema ==
    ZObject(<<
        Field("variant_id", ZString(<<>>)),
        Field("attributes", Optional(ZRecord(ZString(<<>>)))),
        Field("price", Optional(MoneySchema)),
        Field("availability", Optional(AvailabilitySchema)),
        Field("inventory_quantity", Optional(ZNumber(<<CInt, CNonnegative>>))),
        Field("sku", Optional(ZString(<<>>))),
        Field("barcode", Optional(ZString(<<>>))),
        Field("image_url", Optional(ZString(<<CUrl>>)))>>)

CustomAttributeSchema ==
    ZObject(<<
        Field("name", ZString(<<>>)),
        Field("value", ZString(<<>>))>>)

\* the inline { value, unit } objects of length, width, height and weight
MeasureSchema(units) ==
    ZObject(<<
        Field("value", ZNumber(<<CPositive>>)),
        Field("unit", units)>>)

UnitPricingSchema ==
    ZObject(<<
        Field("value", ZNumber(<<CPositive>>)),
        Field("unit", ZString(<<>>))>>)

LengthUnits ==
    ZEnum({<<"i", "n">>,
           <<"c", "m">>,
           <<"m">>,
           <<"f", "t">>})

WeightUnits ==
    ZEnum({<<"l", "b">>,
           <<"o", "z">>,
           <<"k", "g">>,
           <<"g">>})

PickupMethodSchema ==
    ZEnum({<<"b", "u", "y", "_", "o", "n", "l", "i", "n", "e", "_", "p", "i", "c", "k", "u", "p", "_", "i", "n", "_", "s", "t", "o", "r", "e">>,
           <<"c", "u", "r", "b", "s", "i", "d", "e">>,
           <<"i", "n", "_", "s", "t", "o", "r", "e">>})

RelationshipTypeSchema ==
    ZEnum({<<"o", "f", "t", "e", "n", "_", "b", "o", "u", "g", "h", "t", "_", "w", "i", "t", "h">>,
           <<"s", "i", "m", "i", "l", "a", "r", "_", "t", "o">>,
           <<"a", "c", "c", "e", "s", "s", "o", "r", "i", "e", "s", "_", "f", "o", "r">>,
           <<"a", "l", "t", "e", "r", "n", "a", "t", "i", "v", "e", "_", "t", "o">>})

ProductFeedItemSchema ==
    ZObject(<<
        Field("enable_search", Optional(ZBoolean)),
        Field("enable_checkout", Optional(ZBoolean)),
        Field("product_id", ZString(<<>>)),
        Field("title", ZString(<<CMax(150)>>)),
        Field("description", ZString(<<CMax(5000)>>)),
        Field("link", ZString(<<CUrl>>)),
        Field("price", MoneySchema),
        Field("availability", AvailabilitySchema),
        Field("inventory_quantity", ZNumber(<<CInt, CNonnegative>>)),
        Field("brand", Optional(ZString(<<>>))),
        Field("mpn", Optional(ZString(<<>>))),
        Field("gtin", Optional(ZString(<<>>))),
        Field("sku", Optional(ZString(<<>>))),
        Field("condition", Optional(ConditionSchema)),
        Field("product_category", Optional(ZString(<<>>))),
        Field("material", Optional(ZString(<<>>))),
        Field("pattern", Optional(ZString(<<>>))),
        Field("color", Optional(ZString(<<>>))),
        Field("size", Optional(ZString(<<>>))),
        Field("age_group", Optional(AgeGroupSchema)),
        Field("gender", Optional(GenderSchema)),
        Field("dimensions", Optional(ZString(<<>>))),
        Field("length", Optional(MeasureSchema(LengthUnits))),
        Field("width", Optional(MeasureSchema(LengthUnits))),
        Field("height", Optional(MeasureSchema(LengthUnits))),
        Field("weight", Optional(MeasureSchema(WeightUnits))),
        Field("image_url", Optional(ZString(<<CUrl>>))),
        Field("additional_image_urls", Optional(ZArray(ZString(<<CUrl>>)))),
        Field("video_urls", Optional(ZArray(ZString(<<CUrl>>)))),
        Field("model_3d_url", Optional(ZString(<<CUrl>>))),
        Field("compare_at_price", Optional(MoneySchema)),
        Field("sale_price", Optional(MoneySchema)),
        Field("sale_price_effective_start", Optional(ZString(<<CDatetime>>))),
        Field("sale_price_effective_end", Optional(ZString(<<CDatetime>>))),
        Field("applicable_taxes_fees", Optional(MoneySchema)),
        Field("unit_pricing_measure", Optional(UnitPricingSchema)),
        Field("unit_pricing_base_measure", Optional(UnitPricingSchema)),
        Field("pricing_trend", Optional(ZString(<<>>))),
        Field("availability_date", Optional(ZString(<<CDatetime>>))),
        Field("expiration_date", Optional(ZString(<<CDatetime>>))),
        Field("pickup_method", Optional(PickupMethodSchema)),
        Field("pickup_sla", Optional(ZString(<<>>))),
        Field("variants", Optional(ZArray(VariantSchema))),
        Field("item_group_id", Optional(ZString(<<>>))),
        Field("item_group_title", Optional(ZString(<<>>))),
        Field("shipping_weight", Optional(ShippingWeightSchema)),
        Field("shipping_dimensions", Optional(ShippingDimensionsSchema)),
        Field("shipping_label", Optional(ZString(<<>>))),
        Field("ships_from_country", Optional(ZString(<<CLength(2)>>))),
        Field("delivery_estimate", Optional(ZString(<<>>))),
        Field("shipping_cost", Optional(MoneySchema)),
        Field("merchant_id", Optional(ZString(<<>>))),
        Field("merchant_name", Optional(ZString(<<CMax(70)>>))),
        Field("merchant_url", Optional(ZString(<<CUrl>>))),
        Field("merchant_privacy_policy_url", Optional(ZString(<<CUrl>>))),
        Field("merchant_terms_of_service_url", Optional(ZString(<<CUrl>>))),
        Field("return_policy_url", Optional(ZString(<<CUrl>>))),
        Field("return_policy_days", Optional(ZNumber(<<CInt, CPositive>>))),
        Field("click_through_rate", Optional(ZNumber(<<CMin(0, TRUE), CMaxNum(1)>>))),
        Field("conversion_rate", Optional(ZNumber(<<CMin(0, TRUE), CMaxNum(1)>>))),
        Field("average_rating", Optional(ZNumber(<<CMin(0, TRUE), CMaxNum(5)>>))),
        Field("number_of_ratings", Optional(ZNumber(<<CInt, CNonnegative>>))),
        Field("number_of_reviews", Optional(ZNumber(<<CInt, CNonnegative>>))),
        Field("popularity_score", Optional(ZNumber(<<CMin(0, TRUE), CMaxNum(5)>>))),
        Field("return_rate", Optional(ZNumber(<<CMin(0, TRUE), CMaxNum(100)>>))),
        Field("adult_only", Optional(ZBoolean)),
        Field("requires_prescription", Optional(ZBoolean)),
        Field("multipack", Optional(ZNumber(<<CInt, CPositive>>))),
        Field("age_restriction", Optional(ZNumber(<<CInt, CPositive>>))),
        Field("warning", Optional(ZString(<<>>))),
        Field("product_type", Optional(ZString(<<>>))),
        Field("google_product_category", Optional(ZString(<<>>))),
        Field("custom_attributes", Optional(ZArray(CustomAttributeSchema))),
        Field("related_product_ids", Optional(ZArray(ZString(<<>>)))),
        Field("relationship_type", Optional(RelationshipTypeSchema)),
        Field("product_review_count", Optional(ZNumber(<<CInt, CNonnegative>>))),
        Field("product_review_rating", Optional(ZNumber(<<CMin(0, TRUE), CMaxNum(5)>>))),
        Field("qa_content", Optional(ZString(<<>>))),
        Field("included_destinations", Optional(ZArray(ZString(<<>>)))),
        Field("excluded_destinations", Optional(ZArray(ZString(<<>>)))),
        Field("geo_price", Optional(ZArray(ZObject(<<Field("region", ZString(<<>>)), Field("price", MoneySchema)>>)))),
        Field("geo_availability", Optional(ZArray(ZObject(<<Field("region", ZString(<<>>)), Field("availability", AvailabilitySchema)>>))))>>)

\* ------------------------------------------------- evaluation of a schema
\* State threaded through a parse: the lastIndex of the two RegExp objects.
RegExpState0 == [amount |-> 0, currency |-> 0]

Parsed(issues, data, st) == [issues |-> issues, data |-> data, st |-> st]

StringCheck(check, s, path, st) ==
    CASE check.c = "max" ->
           [issues |-> IF Len(s) > check.n
                       THEN <<Issue(path, "too_big", "string")>> ELSE <<>>,
            st |-> st]
      [] check.c = "length" ->
           [issues |-> IF Len(s) > check.n
                       THEN <<Issue(path, "too_big", "string")>>
                       ELSE IF Len(s) < check.n
                            THEN <<Issue(path, "too_small", "string")>>
                            ELSE <<>>,
            st |-> st]
      [] check.c = "regex" ->
           LET r == RegExpTest(RegExpOf(check.re), s, st[check.re])
           IN  [issues |-> IF r.ok THEN <<>>
                           ELSE <<Issue(path, "invalid_string", "regex")>>,
                st |-> [st EXCEPT ![check.re] = r.lastIndex]]
      [] check.c = "url" ->
           [issues |-> IF UrlOk(s) THEN <<>>
                       ELSE <<Issue(path, "invalid_string", "url")>>,
            st |-> st]
      [] check.c = "datetime" ->
           [issues |-> IF DatetimeOk(s) THEN <<>>
                       ELSE <<Issue(path, "invalid_string", "datetime")>>,
            st |-> st]

NumberCheck(check, n, path) ==
    CASE check.c = "int" ->
           IF n % Scale # 0
           THEN <<Issue(path, "invalid_type", "float")>> ELSE <<>>
      [] check.c = "min" ->
           IF (IF check.inclusive THEN n < check.n * Scale
                                  ELSE n <= check.n * Scale)
           THEN <<Issue(path, "too_small", "number")>> ELSE <<>>
      [] check.c = "maxnum" ->
           IF n > check.n * Scale
           THEN <<Issue(path, "too_big", "number")>> ELSE <<>>

\* every check of a string runs; a failed check does not stop the next one
RECURSIVE StringChecks(_, _, _, _, _)
StringChecks(checks, i, s, path, acc) ==
    IF i > Len(checks) THEN acc
    ELSE LET r == StringCheck(checks[i], s, path, acc.st)
         IN  StringChecks(checks, i + 1, s, path,
                          [issues |-> acc.issues \o r.issues, st |-> r.st])

RECURSIVE NumberChecks(_, _, _, _)
NumberChecks(checks, i, n, path) ==
    IF i > Len(checks) THEN <<>>
    ELSE NumberCheck(checks[i], n, path) \o NumberChecks(checks, i + 1, n, path)

ParseString(schema, value, path, st) ==
    IF value.t # "string" THEN Parsed(<<InvalidType(path, value)>>, value, st)
    ELSE LET r == StringChecks(schema.checks, 1, value.v, path,
                               [issues |-> <<>>, st |-> st])
         IN  Parsed(r.issues, value, r.st)

ParseNumber(schema, value, path, st) ==
    IF value.t # "number" THEN Parsed(<<InvalidType(path, value)>>, value, st)
    ELSE Parsed(NumberChecks(schema.checks, 1, value.v, path), value, st)

ParseBoolean(value, path, st) ==
    IF value.t # "boolean" THEN Parsed(<<InvalidType(path, value)>>, value, st)
    ELSE Parsed(<<>>, value, st)

ParseEnum(schema, value, path, st) ==
    IF value.t # "string" THEN Parsed(<<InvalidType(path, value)>>, value, st)
    ELSE IF value.v \notin schema.values
         THEN Parsed(<<Issue(path, "invalid_enum_value", "string")>>, value, st)
         ELSE Parsed(<<>>, value, st)

RECURSIVE Parse(_, _, _, _)
RECURSIVE ParseShape(_, _, _, _, _, _)
RECURSIVE ParseItems(_, _, _, _, _)
RECURSIVE ParseEntries(_, _, _, _, _)

\* mutation: a key the input lacks is skipped instead of parsed as undefined
ParseShapeSkipAbsent(shape, lo, hi, o, path, st) ==
    IF lo > hi THEN Parsed(<<>>, EmptyFcn, st)
    ELSE IF lo = hi
    THEN LET f == shape[lo]
             r == Parse(f.schema, Get(o, f.name), Append(path, f.name), st)
         IN  IF f.name \in DOMAIN o
             THEN Parsed(r.issues, (f.name :> r.data), r.st)
             ELSE Parsed(<<>>, EmptyFcn, st)
    ELSE LET mid == (lo + hi) \div 2
             l == ParseShape(shape, lo, mid, o, path, st)
             r == ParseShape(shape, mid + 1, hi, o, path, l.st)
         IN  Parsed(l.issues \o r.issues, l.data @@ r.data, r.st)

\* mutation: the loop stops at the first key that fails
ParseShapeFailFast(shape, lo, hi, o, path, st) ==
    IF lo > hi THEN Parsed(<<>>, EmptyFcn, st)
    ELSE IF lo = hi
    THEN LET f == shape[lo]
             r == Parse(f.schema, Get(o, f.name), Append(path, f.name), st)
         IN  Parsed(r.issues,
                    IF f.name \in DOMAIN o THEN (f.name :> r.data) ELSE EmptyFcn,
                    r.st)
    ELSE LET mid == (lo + hi) \div 2
             l == ParseShape(shape, lo, mid, o, path, st)
             r == ParseShape(shape, mid + 1, hi, o, path, l.st)
         IN  IF l.issues # <<>> THEN l
             ELSE Parsed(l.issues \o r.issues, l.data @@ r.data, r.st)

\* z.object: every key of the shape is parsed, in declaration order; keys
\* that the shape does not declare are stripped from the output. The loop
\* over shape[lo..hi] is split in halves, the left half run first.
ParseShape(shape, lo, hi, o, path, st) ==
    IF lo > hi THEN Parsed(<<>>, EmptyFcn, st)
    ELSE IF lo = hi
    THEN LET f == shape[lo]
             r == Parse(f.schema, Get(o, f.name), Append(path, f.name), st)
         IN  Parsed(r.issues,
                    IF f.name \in DOMAIN o THEN (f.name :> r.data) ELSE EmptyFcn,
                    r.st)
    ELSE LET mid == (lo + hi) \div 2
             l == ParseShape(shape, lo, mid, o, path, st)
             r == ParseShape(shape, mid + 1, hi, o, path, l.st)
         IN  Parsed(l.issues \o r.issues, l.data @@ r.data, r.st)

\* mutation: the index in the path counts from 1
ParseItemsFromOne(element, i, items, path, acc) ==
    IF i > Len(items) THEN acc
    ELSE LET r == Parse(element, items[i], Append(path, ToString(i)), acc.st)
         IN  ParseItems(element, i + 1, items, path,
                 Parsed(acc.issues \o r.issues, Append(acc.data, r.data), r.st))

\* z.array: every element is parsed, its index (from 0) appended to the path
ParseItems(element, i, items, path, acc) ==
    IF i > Len(items) THEN acc
    ELSE LET r == Parse(element, items[i], Append(path, ToString(i - 1)), acc.st)
         IN  ParseItems(element, i + 1, items, path,
                 Parsed(acc.issues \o r.issues, Append(acc.data, r.data), r.st))

\* z.record: every value is parsed, its key appended to the path
ParseEntries(element, keys, o, path, acc) ==
    IF keys = {} THEN acc
    ELSE LET key == CHOOSE x \in keys : TRUE
             r == Parse(element, o[key], Append(path, key), acc.st)
         IN  ParseEntries(element, keys \ {key}, o, path,
                 Parsed(acc.issues \o r.issues, acc.data @@ (key :> r.data), r.st))

Parse(schema, value, path, st) ==
    CASE schema.k = "optional" ->
           IF value.t = "undefined" THEN Parsed(<<>>, Undefined, st)
           ELSE Parse(schema.inner, value, path, st)
      [] schema.k = "string" -> ParseString(schema, value, path, st)
      [] schema.k = "number" -> ParseNumber(schema, value, path, st)
      [] schema.k = "boolean" -> ParseBoolean(value, path, st)
      [] schema.k = "enum" -> ParseEnum(schema, value, path, st)
      [] schema.k = "object" ->
           IF value.t # "object"
           THEN Parsed(<<InvalidType(path, value)>>, value, st)
           ELSE LET r == ParseShape(schema.shape, 1, Len(schema.shape),
                                    value.v, path, st)
                IN  Parsed(r.issues, Obj(r.data), r.st)
      [] schema.k = "array" ->
           IF value.t # "array"
           THEN Parsed(<<InvalidType(path, value)>>, value, st)
           ELSE LET r == ParseItems(schema.element, 1, value.v, path,
                                    Parsed(<<>>, <<>>, st))
                IN  Parsed(r.issues, Arr(r.data), r.st)
      [] schema.k = "record" ->
           IF value.t # "object"
           THEN Parsed(<<InvalidType(path, value)>>, value, st)
           ELSE LET r == ParseEntries(schema.element, DOMAIN value.v, value.v,
                                      path, Parsed(<<>>, EmptyFcn, st))
                IN  Parsed(r.issues, Obj(r.data), r.st)

\* the instant of a datetime string as digits, most significant first
DigitValue(c) ==
    CHOOSE n \in 0..9 : <<"0", "1", "2", "3", "4", "5", "6", "7", "8", "9">>[n + 1] = c

InstantOf(s) ==
    [i \in 1..(Len(s) - 1) |-> IF s[i] \in Digits THEN DigitValue(s[i]) ELSE 0]

DigitAt(p, i) == IF i <= Len(p) THEN p[i] ELSE 0

Later(a, b) ==
    LET p == InstantOf(a)
        q == InstantOf(b)
        n == IF Len(p) > Len(q) THEN Len(p) ELSE Len(q)
    IN  \E i \in 1..n :
            /\ \A j \in 1..(i - 1) : DigitAt(p, j) = DigitAt(q, j)
            /\ DigitAt(p, i) > DigitAt(q, i)

\* mutation: the schema refined with a check that the sale window is ordered
SafeParseWindowRefined(schema, value, st) ==
    LET r == Parse(schema, value, <<>>, st)
        a == Get(value.v, "sale_price_effective_start")
        b == Get(value.v, "sale_price_effective_end")
        refined ==
            IF /\ r.issues = <<>>
               /\ a.t = "string" /\ b.t = "string"
               /\ Later(a.v, b.v)
            THEN <<Issue(<<"sale_price_effective_end">>, "custom", "string")>>
            ELSE r.issues
    IN  [result |-> IF refined = <<>>
                    THEN [success |-> TRUE, data |-> r.data]
                    ELSE [success |-> FALSE, error |-> refined],
         st |-> r.st]

\* schema.safeParse(value): { success: true, data } or { success: false, error }
SafeParse(schema, value, st) ==
    LET r == Parse(schema, value, <<>>, st)
    IN  [result |-> IF r.issues = <<>>
                    THEN [success |-> TRUE, data |-> r.data]
                    ELSE [success |-> FALSE, error |-> r.issues],
         st |-> r.st]

\* ------------------------------------------------------------ input records
\* The minimal record: the 7 required fields, all well formed.
MinimalRecord ==
    [product_id |-> Str(<<"p", "1">>),
     title |-> Str(<<"T", "e", "e">>),
     description |-> Str(<<"P", "l", "a", "i", "n", " ", "t", "e", "e">>),
     link |-> Str(<<"h", "t", "t", "p", "s", ":", "/", "/", "a", ".", "c", "o", "/", "p", "1">>),
     price |-> Obj([amount |-> Str(<<"1", "2", ".", "3", "4">>), currency |-> Str(<<"U", "S", "D">>)]),
     availability |-> Str(<<"i", "n", "_", "s", "t", "o", "c", "k">>),
     inventory_quantity |-> Num(5)]

Money(amount, currency) == Obj([amount |-> Str(amount), currency |-> Str(currency)])

Set(key, val) == [key |-> key, del |-> FALSE, val |-> val]
Del(key) == [key |-> key, del |-> TRUE, val |-> Undefined]

\* Departures from the minimal record, one key each.
Patches ==
    <<Del("product_id"), Del("title"), Del("description"), Del("link"),
      Del("price"), Del("availability"), Del("inventory_quantity"),
      Set("product_id", Num(7)),
      Set("title", Str(Rep("a", 151))),
      Set("title", Str(Rep("a", 150))),
      Set("title", Bool(TRUE)),
      Set("description", Str(Rep("d", 5001))),
      Set("link", Str(<<"a", ".", "c", "o", "/", "p", "1">>)),
      Set("link", Str(<<"h", "t", "t", "p", "s", ":", "/", "/">>)),
      Set("link", Str(<<"m", "a", "i", "l", "t", "o", ":", "a">>)),
      Set("price", Money(<<"1", "2", ".", "3", "4", "5">>, <<"U", "S", "D">>)),
      Set("price", Money(<<"1", "2", ".", "3", "4">>, <<"u", "s", "d">>)),
      Set("price", Money(<<"1", "2">>, <<"U", "S">>)),
      Set("price", Money(<<"-", "1">>, <<"u", "s", "d">>)),
      Set("price", Str(<<"1", "2", ".", "3", "4">>)),
      Set("price", Obj([amount |-> Str(<<"5">>)])),
      Set("price", Obj([amount |-> Str(<<"5">>), currency |-> Str(<<"E", "U", "R">>),
                        note |-> Str(<<"x">>)])),
      Set("availability", Str(<<"s", "o", "l", "d">>)),
      Set("availability", Num(1)),
      Set("availability", Str(<<"p", "r", "e", "o", "r", "d", "e", "r">>)),
      Set("inventory_quantity", Num(0)),
      Set("inventory_quantity", Num(-1)),
      Set("inventory_quantity", Half(-1)),
      Set("inventory_quantity", Half(3)),
      Set("inventory_quantity", NaN),
      Set("inventory_quantity", Str(<<"5">>)),
      Set("enable_search", Bool(TRUE)),
      Set("enable_checkout", Str(<<"y", "e", "s">>)),
      Set("condition", Str(<<"n", "e", "w">>)),
      Set("condition", Str(<<"o", "l", "d">>)),
      Set("length", Obj([value |-> Num(0), unit |-> Str(<<"i", "n">>)])),
      Set("weight", Obj([value |-> Half(1), unit |-> Str(<<"m", "m">>)])),
      Set("image_url", Str(<<"i", "m", "g">>)),
      Set("additional_image_urls",
          Arr(<<Str(<<"h", "t", "t", "p", "s", ":", "/", "/", "a", ".", "c", "o", "/", "1">>), Str(<<"o", "n", "e">>), Str(<<"t", "w", "o">>)>>)),
      Set("compare_at_price", Money(<<"2", "0", ".", "5">>, <<"U", "S", "D">>)),
      Set("compare_at_price", Money(<<"2", "0", ".">>, <<"U", "S", "D">>)),
      Set("sale_price", Money(<<".", "5">>, <<"U", "S", "1">>)),
      Set("availability_date", Str(<<"2", "0", "2", "5", "-", "0", "6", "-", "0", "1">>)),
      Set("shipping_dimensions",
          Obj([length |-> Num(-1), width |-> Num(0), height |-> Num(1),
               unit |-> Str(<<"m">>)])),
      Set("ships_from_country", Str(<<"U", "S">>)),
      Set("ships_from_country", Str(<<"U", "S", "A">>)),
      Set("merchant_name", Str(Rep("m", 71))),
      Set("return_policy_days", Num(0)),
      Set("click_through_rate", Half(1)),
      Set("click_through_rate", Num(2)),
      Set("return_rate", Num(100)),
      Set("return_rate", Num(101)),
      Set("custom_attributes",
          Arr(<<Obj([name |-> Str(<<"k">>), value |-> Str(<<"v">>)]),
                Obj([name |-> Str(<<"k">>)])>>)),
      Set("related_product_ids", Arr(<<Str(<<"p", "2">>), Num(3)>>)),
      Set("relationship_type", Str(<<"s", "i", "m", "i", "l", "a", "r", "_", "t", "o">>)),
      Set("geo_price",
          Arr(<<Obj([region |-> Str(<<"E", "U">>), price |-> Money(<<"9", ".", "9", "9">>, <<"E", "U", "R">>)]),
                Obj([region |-> Str(<<"E", "U">>), price |-> Money(<<"9", ",", "9", "9">>, <<"e", "u", "r">>)])>>)),
      Set("geo_availability",
          Arr(<<Obj([region |-> Str(<<"E", "U">>), availability |-> Str(<<"s", "o", "o", "n">>)])>>)),
      Set("variants",
          Arr(<<Obj([variant_id |-> Str(<<"v", "1">>),
                     attributes |-> Obj([color |-> Str(<<"r", "e", "d">>), size |-> Num(4)]),
                     image_url |-> Str(<<"i", "m", "g">>)])>>)),
      Set("extra", Str(<<"x">>))>>

ApplyPatch(o, p) ==
    IF p.del THEN [k \in DOMAIN o \ {p.key} |-> o[k]]
    ELSE [k \in DOMAIN o \cup {p.key} |-> IF k = p.key THEN p.val ELSE o[k]]

RECURSIVE ApplyPatches(_, _, _)
ApplyPatches(o, choice, i) ==
    IF i > Len(choice) THEN o
    ELSE ApplyPatches(IF choice[i] = 0 THEN o
                      ELSE ApplyPatch(o, Patches[choice[i]]),
                      choice, i + 1)

\* at most MaxBad patches, on different keys
PatchChoices ==
    {c \in [1..MaxBad -> 0..Len(Patches)] :
        \A i, j \in 1..MaxBad :
            i < j => \/ c[i] = 0 /\ c[j] = 0
                     \/ /\ c[i] # 0 /\ c[i] < c[j]
                        /\ Patches[c[i]].key # Patches[c[j]].key}

\* strings over an alphabet, up to a length
RECURSIVE Strings(_, _)
Strings(alphabet, n) ==
    IF n = 0 THEN {<<>>}
    ELSE LET shorter == Strings(alphabet, n - 1)
         IN  shorter \cup {Append(s, c) : s \in shorter, c \in alphabet}

AmountSamples == Strings({"1", ".", "-"}, MaxAmountLen) \cup {<<"1", "2", ".", "3", "4", "5">>, <<"1", "2", ".", "3", "4">>, <<"0">>}
CurrencySamples == Strings({"U", "S", "u"}, MaxCurrencyLen) \cup {<<"U", "S", "D">>, <<"u", "s", "d">>, <<"E", "U", "R">>}

DateSamples ==
    <<<<"2", "0", "2", "5", "-", "0", "5", "-", "0", "1", "T", "0", "0", ":", "0", "0", ":", "0", "0", "Z">>, <<"2", "0", "2", "5", "-", "0", "6", "-", "0", "1", "T", "0", "0", ":", "0", "0", ":", "0", "0", "Z">>,
      <<"2", "0", "2", "5", "-", "0", "6", "-", "0", "1", "T", "0", "0", ":", "0", "0", ":", "0", "0", ".", "5", "Z">>, <<"2", "0", "2", "4", "-", "1", "2", "-", "3", "1", "T", "2", "3", ":", "5", "9", ":", "5", "9", "Z">>, <<"2", "0", "2", "5", "-", "0", "6", "-", "0", "1">>,
      <<"2", "0", "2", "5", "-", "0", "5", "-", "0", "1", " ", "0", "0", ":", "0", "0", ":", "0", "0", "Z">>>>

\* a record with a sale window; 0 leaves the bound out
WindowRecord(a, b) ==
    LET withStart == IF a = 0 THEN MinimalRecord
                     ELSE ApplyPatch(MinimalRecord,
                              Set("sale_price_effective_start", Str(DateSamples[a])))
    IN  IF b = 0 THEN withStart
        ELSE ApplyPatch(withStart,
                 Set("sale_price_effective_end", Str(DateSamples[b])))

\* entries of a variants array, by the inventory_quantity they carry
VariantSamples ==
    <<Obj([variant_id |-> Str(<<"v">>)]),
      Obj([variant_id |-> Str(<<"v">>), inventory_quantity |-> Num(2)]),
      Obj([variant_id |-> Str(<<"v">>), inventory_quantity |-> Num(0)]),
      Obj([variant_id |-> Str(<<"v">>), inventory_quantity |-> Num(-1)]),
      Obj([variant_id |-> Str(<<"v">>), inventory_quantity |-> Half(-1)]),
      Obj([variant_id |-> Str(<<"v">>), inventory_quantity |-> Num(3),
           price |-> Money(<<"1", ".", "5">>, <<"u", "s", "d">>)])>>

VariantsRecord(choice) ==
    ApplyPatch(MinimalRecord,
               Set("variants", Arr([i \in DOMAIN choice |-> VariantSamples[choice[i]]])))

VariantChoices ==
    UNION {[1..n -> 1..Len(VariantSamples)] : n \in 0..MaxVariants}

\* records of a batch: between them they use both expressions of MoneySchema
BatchSamples ==
    <<MinimalRecord,
      ApplyPatch(MinimalRecord, Patches[16]),
      ApplyPatch(MinimalRecord, Patches[17]),
      ApplyPatch(MinimalRecord, Patches[40]),
      ApplyPatch(MinimalRecord, Patches[5]),
      WindowRecord(2, 1)>>

BatchChoices ==
    UNION {[1..n -> 1..Len(BatchSamples)] : n \in 2..MaxBatch}

\* ------------------------------------------------------------ state machine
VARIABLES records,      \* the records handed to the validator, by position
          results,      \* the outcomes of safeParse with their positions, as completed
          regExpState,  \* lastIndex of the RegExp objects of MoneySchema
          config,       \* the HandlerConfig given to createHandlers
          log           \* the handler calls made: input, requests sent, outcome

vars == <<records, results, regExpState, config, log>>

DefaultConfig == [baseUrl |-> "https://mystore.com", hasGetCheckoutUrl |-> FALSE]

InitPatched ==
    \E c \in PatchChoices : records = <<Obj(ApplyPatches(MinimalRecord, c, 1))>>

InitMoney ==
    \/ \E a \in AmountSamples :
           records = <<Obj(ApplyPatch(MinimalRecord, Set("price", Money(a, <<"U", "S", "D">>))))>>
    \/ \E c \in CurrencySamples :
           records = <<Obj(ApplyPatch(MinimalRecord,
                               Set("price", Money(<<"1", "2", ".", "3", "4">>, c))))>>

InitWindow ==
    \E a, b \in 0..Len(DateSamples) : records = <<Obj(WindowRecord(a, b))>>

InitVariants ==
    \E c \in VariantChoices : records = <<Obj(VariantsRecord(c))>>

InitBatch ==
    \E c \in BatchChoices : records = [i \in DOMAIN c |-> Obj(BatchSamples[c[i]])]

Init ==
    /\ \/ InitPatched
       \/ InitMoney
       \/ InitWindow
       \/ InitVariants
       \/ InitBatch
    /\ results = <<>>
    /\ regExpState = RegExpState0
    /\ config = DefaultConfig
    /\ log = <<>>

\* ProductFeedItemSchema.safeParse(records[i]), in any order of the positions
Validated == {results[k].index : k \in DOMAIN results}

Validate(i) ==
    /\ i \notin Validated
    /\ LET r == SafeParse(ProductFeedItemSchema, records[i], regExpState)
       IN  /\ results' = Append(results, [index |-> i, result |-> r.result])
           /\ regExpState' = r.st
    /\ UNCHANGED <<records, config, log>>

Next == \E i \in DOMAIN records : Validate(i)

Spec == Init /\ [][Next]_vars

\* ------------------------------------------------------- mcp/index.ts
\* A URL or path built by a template literal is the sequence of its parts.
SessionIds == {"s1", "s2"}

Customer == [email |-> "a@b.co", name |-> "Ann"]

Items == <<[id |-> "p1", quantity |-> 1]>>

\* what the store's API answers to a request
Responses ==
    {[ok |-> TRUE, body |-> [status |-> "ok"]],
     [ok |-> FALSE, body |-> [message |-> "Session not found"]],
     [ok |-> FALSE, body |-> [none |-> TRUE]]}

StatusText == "Bad Request"

JSONStringify(value) == [json |-> value]

\* request(path, options): one fetch of baseUrl + path; the parsed body of an
\* ok response is returned, any other response is thrown as an Error.
Request(path, options, response) ==
    [sent |-> <<[url |-> <<config.baseUrl>> \o path,
                 method |-> IF "method" \in DOMAIN options
                            THEN options.method ELSE "GET",
                 hasBody |-> "body" \in DOMAIN options,
                 body |-> IF "body" \in DOMAIN options
                          THEN options.body ELSE JSONStringify(EmptyFcn)]>>,
     outcome |->
         IF response.ok
         THEN [kind |-> "return", value |-> response.body]
         ELSE [kind |-> "throw",
               value |-> [error |-> <<"API request failed: ",
                                      IF "message" \in DOMAIN response.body
                                      THEN response.body.message
                                      ELSE StatusText>>]]]

CreateCheckoutHandler(input, response) ==
    Request(<<"/api/checkout">>,
            [method |-> "POST", body |-> JSONStringify(input)], response)

UpdateCheckoutHandler(input, response) ==
    LET body == [k \in DOMAIN input \ {"session_id"} |-> input[k]]
    IN  Request(<<"/api/checkout/", input.session_id>>,
                [method |-> "POST", body |-> JSONStringify(body)], response)

\* mutation: only a missing token counts, payment?.token === undefined
NoTokenUndefinedOnly(input) ==
    \/ "payment" \notin DOMAIN input
    \/ "token" \notin DOMAIN input.payment

\* !payment?.token: no payment, no token, or the empty string as token
NoToken(input) ==
    \/ "payment" \notin DOMAIN input
    \/ "token" \notin DOMAIN input.payment
    \/ input.payment.token = ""

GetCheckoutUrl(session_id) == <<"https://pay.mystore.com/s/", session_id>>

CompleteCheckoutHandler(input, response) ==
    IF NoToken(input)
    THEN [sent |-> <<>>,
          outcome |->
              [kind |-> "return",
               value |-> [checkout_url |->
                              IF config.hasGetCheckoutUrl
                              THEN GetCheckoutUrl(input.session_id)
                              ELSE <<config.baseUrl, "/checkout/", input.session_id>>,
                          session_id |-> input.session_id,
                          status |-> "pending_payment",
                          message |-> "Complete your purchase at the checkout link"]]]
    ELSE Request(<<"/api/checkout/", input.session_id, "/complete">>,
                 [method |-> "POST",
                  body |-> JSONStringify([customer |-> input.customer,
                                          payment |-> input.payment])],
                 response)

CancelCheckoutHandler(input, response) ==
    Request(<<"/api/checkout/", input.session_id, "/cancel">>,
            [method |-> "POST"], response)

GetCheckoutHandler(input, response) ==
    Request(<<"/api/checkout/", input.session_id>>, EmptyFcn, response)

\* "Maps to:" of the tool definitions: the method and the path below baseUrl
ToolRoute(handler, session_id) ==
    CASE handler = "createCheckout" ->
           [method |-> "POST", path |-> <<"/api/checkout">>]
      [] handler = "updateCheckout" ->
           [method |-> "PATCH", path |-> <<"/api/checkout/", session_id>>]
      [] handler = "completeCheckout" ->
           [method |-> "POST", path |-> <<"/api/checkout/", session_id, "/complete">>]
      [] handler = "cancelCheckout" ->
           [method |-> "POST", path |-> <<"/api/checkout/", session_id, "/cancel">>]
      [] handler = "getCheckout" ->
           [method |-> "GET", path |-> <<"/api/checkout/", session_id>>]

\* inputs the tool definitions admit
CreateInputs == {[items |-> Items], [items |-> Items, customer |-> Customer]}

UpdateInputs ==
    {[session_id |-> s, items |-> Items] : s \in SessionIds}
        \cup {[session_id |-> s] : s \in SessionIds}

Payments ==
    {[method |-> "card"],
     [method |-> "card", token |-> ""],
     [method |-> "card", token |-> "tok_1"]}

CompleteInputs ==
    {[session_id |-> s, customer |-> Customer] : s \in SessionIds}
        \cup {[session_id |-> s, customer |-> Customer, payment |-> p] :
                  s \in SessionIds, p \in Payments}

SessionInputs == {[session_id |-> s] : s \in SessionIds}

Called(handler, input, response, r) ==
    /\ Len(log) < MaxCalls
    /\ log' = Append(log, [handler |-> handler, input |-> input,
                           response |-> response,
                           sent |-> r.sent, outcome |-> r.outcome])
    /\ UNCHANGED <<records, results, regExpState, config>>

CreateCheckout ==
    \E input \in CreateInputs, response \in Responses :
        Called("createCheckout", input, response, CreateCheckoutHandler(input, response))

UpdateCheckout ==
    \E input \in UpdateInputs, response \in Responses :
        Called("updateCheckout", input, response, UpdateCheckoutHandler(input, response))

CompleteCheckout ==
    \E input \in CompleteInputs, response \in Responses :
        Called("completeCheckout", input, response, CompleteCheckoutHandler(input, response))

CancelCheckout ==
    \E input \in SessionInputs, response \in Responses :
        Called("cancelCheckout", input, response, CancelCheckoutHandler(input, response))

GetCheckout ==
    \E input \in SessionInputs, response \in Responses :
        Called("getCheckout", input, response, GetCheckoutHandler(input, response))

InitMcp ==
    /\ records = <<>>
    /\ results = <<>>
    /\ regExpState = RegExpState0
    /\ config \in {[baseUrl |-> "https://mystore.com", hasGetCheckoutUrl |-> b] :
                      b \in BOOLEAN}
    /\ log = <<>>

NextMcp ==
    \/ CreateCheckout
    \/ UpdateCheckout
    \/ CompleteCheckout
    \/ CancelCheckout
    \/ GetCheckout

SpecMcp == InitMcp /\ [][NextMcp]_vars

\* The store's API as the cancelCheckout tool describes it: a session that
\* has been canceled "cannot be completed", so the complete endpoint answers
\* a canceled session with an error.
CanceledBefore(n, session_id) ==
    \E m \in 1..(n - 1) :
        /\ log[m].handler = "cancelCheckout"
        /\ log[m].input.session_id = session_id
        /\ log[m].outcome.kind = "return"

ServerResponses(handler, input) ==
    IF handler = "completeCheckout" /\ CanceledBefore(Len(log) + 1, input.session_id)
    THEN {r \in Responses : ~r.ok}
    ELSE Responses

CreateCheckoutSession ==
    \E input \in CreateInputs :
        \E response \in ServerResponses("createCheckout", input) :
            Called("createCheckout", input, response,
                   CreateCheckoutHandler(input, response))

UpdateCheckoutSession ==
    \E input \in UpdateInputs :
        \E response \in ServerResponses("updateCheckout", input) :
            Called("updateCheckout", input, response,
                   UpdateCheckoutHandler(input, response))

CompleteCheckoutSession ==
    \E input \in CompleteInputs :
        \E response \in ServerResponses("completeCheckout", input) :
            Called("completeCheckout", input, response,
                   CompleteCheckoutHandler(input, response))

CancelCheckoutSession ==
    \E input \in SessionInputs :
        \E response \in ServerResponses("cancelCheckout", input) :
            Called("cancelCheckout", input, response,
                   CancelCheckoutHandler(input, response))

GetCheckoutSession ==
    \E input \in SessionInputs :
        \E response \in ServerResponses("getCheckout", input) :
            Called("getCheckout", input, response,
                   GetCheckoutHandler(input, response))

NextSession ==
    \/ CreateCheckoutSession
    \/ UpdateCheckoutSession
    \/ CompleteCheckoutSession
    \/ CancelCheckoutSession
    \/ GetCheckoutSession

SpecSession == InitMcp /\ [][NextSession]_vars

\* ================================================================ claims
RequiredFields ==
    {"product_id", "title", "description", "link", "price", "availability",
     "inventory_quantity"}

Shape == ProductFeedItemSchema.shape

Unwrap(schema) == IF schema.k = "optional" THEN schema.inner ELSE schema

\* the value passes the validator of the field, taken on its own
FieldValid(schema, value) ==
    Parse(Unwrap(schema), value, <<>>, RegExpState0).issues = <<>>

FieldwiseValid(o) ==
    \A n \in 1..Len(Shape) :
        LET f == Shape[n]
        IN  IF f.name \in RequiredFields
            THEN f.name \in DOMAIN o /\ FieldValid(f.schema, o[f.name])
            ELSE f.name \in DOMAIN o => FieldValid(f.schema, o[f.name])

Violations(r) == IF r.success THEN <<>> ELSE r.error

IsPrefix(p, q) == Len(p) <= Len(q) /\ SubSeq(q, 1, Len(p)) = p

Under(issues, path) ==
    LET Test(x) == IsPrefix(path, x.path) IN SelectSeq(issues, Test)

\* the violation taxonomy of the specification, read off the issue
Kind(issue) ==
    CASE issue.code = "invalid_type" /\ issue.detail = "undefined" ->
           "MissingRequiredField"
      [] issue.code \in {"too_small", "too_big"} /\ issue.detail = "number" ->
           "OutOfRange"
      [] issue.code \in {"too_small", "too_big"} /\ issue.detail = "string" ->
           "InvalidFormat"
      [] issue.code = "invalid_string" -> "InvalidFormat"
      [] issue.code = "invalid_enum_value" -> "InvalidEnumValue"
      [] issue.code = "custom" -> "CrossFieldInconsistency"
      [] OTHER -> "InvalidType"

InputOf(k) == records[results[k].index].v

\* C1: every validated record is either Valid with a normalized record and no
\* violations or Invalid with a non-empty list of violations and no record,
\* and it is Valid exactly when the 7 required fields are present and valid
\* and every optional field that is present is valid.
C1_ValidIffFieldsValid ==
    \A k \in DOMAIN results :
        LET r == results[k].result
        IN  /\ \/ r.success /\ DOMAIN r = {"success", "data"} /\ r.data.t = "object"
               \/ ~r.success /\ DOMAIN r = {"success", "error"} /\ r.error # <<>>
            /\ r.success <=> FieldwiseValid(InputOf(k))

\* an Invalid outcome that is due to an optional field alone
C1_Witness ==
    \E k \in DOMAIN results :
        /\ ~results[k].result.success
        /\ \A f \in RequiredFields :
               f \in DOMAIN InputOf(k)
               /\ FieldValid(CHOOSE s \in {Shape[n].schema : n \in {m \in 1..Len(Shape) : Shape[m].name = f}} : TRUE,
                             InputOf(k)[f])

\* what the violations below a path must be when nothing is dropped: at an
\* object or an array, those of every member; elsewhere, all that the
\* validator of the value reports on its own
RECURSIVE Complete(_, _, _, _)
Complete(schema, value, path, issues) ==
    LET inner == Unwrap(schema)
    IN  IF schema.k = "optional" /\ value.t = "undefined"
        THEN Under(issues, path) = <<>>
        ELSE IF inner.k = "object" /\ value.t = "object"
        THEN \A n \in 1..Len(inner.shape) :
                 Complete(inner.shape[n].schema,
                          Get(value.v, inner.shape[n].name),
                          Append(path, inner.shape[n].name), issues)
        ELSE IF inner.k = "array" /\ value.t = "array"
        THEN \A j \in DOMAIN value.v :
                 Complete(inner.element, value.v[j],
                          Append(path, ToString(j - 1)), issues)
        ELSE Under(issues, path) = Parse(inner, value, path, RegExpState0).issues

\* C2: one validate call reports the violations of every invalid field, at
\* any depth; none is dropped because another field failed, and two
\* violations on one path are both kept.
C2_FailComplete ==
    \A k \in DOMAIN results :
        Complete(ProductFeedItemSchema, records[results[k].index], <<>>,
                 Violations(results[k].result))

\* two violations on one nested path, and a violation of another field
C2_Witness ==
    \E k \in DOMAIN results :
        LET e == Violations(results[k].result)
        IN  \E a, b, c \in DOMAIN e :
                /\ a < b
                /\ e[a].path = e[b].path
                /\ Len(e[a].path) >= 2
                /\ e[c].path[1] # e[a].path[1]

\* C3: a record that lacks exactly one required field and is otherwise valid
\* is Invalid with exactly one violation, MissingRequiredField at the path of
\* that field; the other fields are checked as they are when it is present.
C3_MissingRequired ==
    \A k \in DOMAIN results :
        \A f \in RequiredFields :
            LET o == InputOf(k)
                r == results[k].result
                filled == ApplyPatch(o, Set(f, MinimalRecord[f]))
                NotF(x) == x.path # <<f>>
            IN  f \notin DOMAIN o =>
                    /\ ~r.success
                    /\ Under(r.error, <<f>>) = <<Issue(<<f>>, "invalid_type", "undefined")>>
                    /\ Kind(Under(r.error, <<f>>)[1]) = "MissingRequiredField"
                    /\ FieldwiseValid(filled) => Len(r.error) = 1
                    /\ SelectSeq(r.error, NotF)
                           = Violations(SafeParse(ProductFeedItemSchema, Obj(filled),
                                                  RegExpState0).result)

\* a record that lacks exactly one required field and is otherwise valid
C3_Witness ==
    \E k \in DOMAIN results :
        \E f \in RequiredFields :
            /\ DOMAIN InputOf(k) = RequiredFields \ {f}
            /\ Len(Violations(results[k].result)) = 1

WellFormedDates == {DateSamples[n] : n \in 1..4}

HasWindow(o) ==
    /\ "sale_price_effective_start" \in DOMAIN o
    /\ "sale_price_effective_end" \in DOMAIN o
    /\ o.sale_price_effective_start.t = "string"
    /\ o.sale_price_effective_end.t = "string"
    /\ o.sale_price_effective_start.v \in WellFormedDates
    /\ o.sale_price_effective_end.v \in WellFormedDates

CrossField(issues) ==
    LET Test(x) == Kind(x) = "CrossFieldInconsistency" IN SelectSeq(issues, Test)

NegativeQuantity(entry) ==
    /\ entry.t = "object"
    /\ "inventory_quantity" \in DOMAIN entry.v
    /\ entry.v.inventory_quantity.t = "number"
    /\ entry.v.inventory_quantity.v < 0

\* entry j of variants is the only one with a negative inventory_quantity, and
\* the record is valid once that quantity is put to 0
OnlyNegativeAt(o, j) ==
    /\ "variants" \in DOMAIN o
    /\ o.variants.t = "array"
    /\ j \in DOMAIN o.variants.v
    /\ \A i \in DOMAIN o.variants.v : NegativeQuantity(o.variants.v[i]) <=> i = j
    /\ FieldwiseValid(
           [o EXCEPT !.variants.v[j].v.inventory_quantity = Num(0)])

QuantityPath(j) == <<"variants", ToString(j - 1), "inventory_quantity">>

\* C5 as stated: when only entry i of variants has a negative
\* inventory_quantity, exactly one violation, OutOfRange at
\* variants[i].inventory_quantity.
C5_Original ==
    \A k \in DOMAIN results :
        \A j \in 1..(MaxVariants + 1) :
            OnlyNegativeAt(InputOf(k), j) =>
                /\ Len(Violations(results[k].result)) = 1
                /\ Violations(results[k].result)[1].path = QuantityPath(j)
                /\ Kind(Violations(results[k].result)[1]) = "OutOfRange"

\* C5 amended: when only entry i of variants has a negative inventory_quantity
\* and that quantity is an integer, exactly one violation, OutOfRange at
\* variants[i].inventory_quantity; a negative quantity that is not an integer
\* yields two violations at that path, the second one OutOfRange.
C5_NegativeInteger ==
    \A k \in DOMAIN results :
        \A j \in 1..(MaxVariants + 1) :
            LET o == InputOf(k)
                e == Violations(results[k].result)
            IN  OnlyNegativeAt(o, j) =>
                    IF o.variants.v[j].v.inventory_quantity.v % Scale = 0
                    THEN /\ Len(e) = 1
                         /\ e[1].path = QuantityPath(j)
                         /\ Kind(e[1]) = "OutOfRange"
                    ELSE /\ Len(e) = 2
                         /\ e[1].path = QuantityPath(j)
                         /\ e[2].path = QuantityPath(j)
                         /\ Kind(e[1]) = "InvalidType"
                         /\ Kind(e[2]) = "OutOfRange"

\* three variants, the middle one with a negative integer quantity
C5_Witness ==
    \E k \in DOMAIN results :
        /\ OnlyNegativeAt(InputOf(k), 2)
        /\ Len(InputOf(k).variants.v) = 3
        /\ InputOf(k).variants.v[2].v.inventory_quantity.v % Scale = 0
        /\ Len(Violations(results[k].result)) = 1

\* a decimal string read left to right: digits, then at most once a point
\* followed by one or two digits
RECURSIVE DecimalScan(_, _, _)
DecimalScan(s, i, state) ==
    IF i > Len(s) THEN state \in {"int", "frac1", "frac2"}
    ELSE IF s[i] \in Digits
    THEN CASE state \in {"start", "int"} -> DecimalScan(s, i + 1, "int")
           [] state = "point" -> DecimalScan(s, i + 1, "frac1")
           [] state = "frac1" -> DecimalScan(s, i + 1, "frac2")
           [] OTHER -> FALSE
    ELSE IF s[i] = "." /\ state = "int" THEN DecimalScan(s, i + 1, "point")
    ELSE FALSE

ThreeUppercaseLetters(s) == Len(s) = 3 /\ \A i \in DOMAIN s : s[i] \in Upper

MoneyFields ==
    {"price", "compare_at_price", "sale_price", "applicable_taxes_fees",
     "shipping_cost"}

MoneyWellFormed(m) ==
    /\ m.t = "object"
    /\ Get(m.v, "amount").t = "string"
    /\ DecimalScan(m.v.amount.v, 1, "start")
    /\ Get(m.v, "currency").t = "string"
    /\ ThreeUppercaseLetters(m.v.currency.v)

\* C6: a Money value is accepted exactly when its amount is a non-negative
\* decimal string with at most 2 fractional digits and its currency is 3
\* uppercase letters; the amount "12.345" gives InvalidFormat at price.amount
\* and the currency "usd" is rejected, not upper-cased.
C6_MoneyAccepted ==
    \A k \in DOMAIN results :
        LET o == InputOf(k)
            e == Violations(results[k].result)
        IN  /\ \A f \in MoneyFields \cap DOMAIN o :
                   (Under(e, <<f>>) = <<>>) <=> MoneyWellFormed(o[f])
            /\ /\ "price" \in DOMAIN o
               /\ o.price.t = "object"
               /\ Get(o.price.v, "amount") = Str(<<"1", "2", ".", "3", "4", "5">>)
               => \E n \in DOMAIN e :
                      /\ e[n].path = <<"price", "amount">>
                      /\ Kind(e[n]) = "InvalidFormat"
            /\ /\ "price" \in DOMAIN o
               /\ o.price.t = "object"
               /\ Get(o.price.v, "currency") = Str(<<"u", "s", "d">>)
               => /\ ~results[k].result.success
                  /\ \E n \in DOMAIN e :
                         /\ e[n].path = <<"price", "currency">>
                         /\ Kind(e[n]) = "InvalidFormat"

\* the record whose price is 12.345 USD has been validated
C6_Witness ==
    \E k \in DOMAIN results :
        /\ Get(InputOf(k), "price")
               = Money(<<"1", "2", ".", "3", "4", "5">>, <<"U", "S", "D">>)
        /\ ~results[k].result.success

\* C7: a record of the 7 required fields alone, all well formed, is Valid, and
\* the normalized record equals the input; no optional field is missed.
C7_MinimalRecord ==
    \A k \in DOMAIN results :
        LET o == InputOf(k)
            r == results[k].result
        IN  /\ DOMAIN o = RequiredFields
            /\ \A f \in RequiredFields :
                   FieldValid(Shape[CHOOSE n \in 1..Len(Shape) : Shape[n].name = f].schema,
                              o[f])
            /\ DOMAIN o.price.v = {"amount", "currency"}
            => /\ r.success
               /\ r.data = records[results[k].index]

\* a record of the 7 required fields alone has been validated as Valid
C7_Witness ==
    \E k \in DOMAIN results :
        /\ DOMAIN InputOf(k) = RequiredFields
        /\ results[k].result.success
        /\ results[k].result.data.v.price.v.currency = Str(<<"U", "S", "D">>)

\* the records validated one after another, in the order of their positions
RECURSIVE SequentialRun(_, _, _)
SequentialRun(recs, i, st) ==
    IF i > Len(recs) THEN <<>>
    ELSE LET r == SafeParse(ProductFeedItemSchema, recs[i], st)
         IN  <<r.result>> \o SequentialRun(recs, i + 1, r.st)

\* C8: whatever the order in which the records of a batch are validated, the
\* outcome for each record is the one of validating them one after another,
\* and the one of validating that record first.
C8_Deterministic ==
    \A k \in DOMAIN results :
        /\ results[k].result
               = SequentialRun(records, 1, RegExpState0)[results[k].index]
        /\ results[k].result
               = SafeParse(ProductFeedItemSchema, records[results[k].index],
                           RegExpState0).result

\* a batch validated to the end, against the order of its positions
C8_Witness ==
    /\ Len(records) >= 2
    /\ Len(results) = Len(records)
    /\ results[1].index = 2
    /\ results[1].result.success
    /\ results[2].result.success

CheckoutUrlOf(session_id) ==
    IF config.hasGetCheckoutUrl THEN GetCheckoutUrl(session_id)
    ELSE <<config.baseUrl, "/checkout/", session_id>>

PendingPayment(entry) ==
    /\ entry.sent = <<>>
    /\ entry.outcome.kind = "return"
    /\ entry.outcome.value.checkout_url = CheckoutUrlOf(entry.input.session_id)
    /\ entry.outcome.value.session_id = entry.input.session_id
    /\ entry.outcome.value.status = "pending_payment"

CompletePosted(entry) ==
    /\ Len(entry.sent) = 1
    /\ entry.sent[1].method = "POST"
    /\ entry.sent[1].url
           = <<config.baseUrl, "/api/checkout/", entry.input.session_id, "/complete">>
    /\ entry.sent[1].hasBody
    /\ entry.sent[1].body
           = JSONStringify([customer |-> entry.input.customer,
                            payment |-> entry.input.payment])

HasTokenField(input) ==
    "payment" \in DOMAIN input /\ "token" \in DOMAIN input.payment

\* C9 as stated: without a payment or without a payment token completeCheckout
\* sends nothing and returns the pending_payment result with the checkout URL;
\* with a payment token it sends one POST to /api/checkout/{id}/complete with
\* customer and payment and returns that response.
C9_Original ==
    \A n \in DOMAIN log :
        log[n].handler = "completeCheckout" =>
            IF HasTokenField(log[n].input)
            THEN /\ CompletePosted(log[n])
                 /\ log[n].outcome = [kind |-> "return", value |-> log[n].response.body]
            ELSE PendingPayment(log[n])

\* C9 amended: without a payment, without a payment token or with the empty
\* string as token, completeCheckout sends nothing and returns the
\* pending_payment result with the checkout URL; with a non-empty token it
\* sends one POST to /api/checkout/{id}/complete with customer and payment,
\* and returns the body of the response when the response is ok and throws an
\* "API request failed" error otherwise.
C9_TokenBranch ==
    \A n \in DOMAIN log :
        log[n].handler = "completeCheckout" =>
            IF HasTokenField(log[n].input) /\ log[n].input.payment.token # ""
            THEN /\ CompletePosted(log[n])
                 /\ IF log[n].response.ok
                    THEN log[n].outcome
                             = [kind |-> "return", value |-> log[n].response.body]
                    ELSE /\ log[n].outcome.kind = "throw"
                         /\ log[n].outcome.value.error[1] = "API request failed: "
            ELSE /\ PendingPayment(log[n])
                 /\ log[n].outcome.value.message
                        = "Complete your purchase at the checkout link"

\* completeCheckout has been called with the empty string as token, under a
\* configured getCheckoutUrl
C9_Witness ==
    \E n \in DOMAIN log :
        /\ log[n].handler = "completeCheckout"
        /\ HasTokenField(log[n].input)
        /\ log[n].input.payment.token = ""
        /\ config.hasGetCheckoutUrl
        /\ log[n].sent = <<>>

\* C10: every checkout handler sends the method and the path its tool
\* definition declares: createCheckout POST /api/checkout, updateCheckout PATCH
\* /api/checkout/{id} with a body without session_id, cancelCheckout POST
\* /api/checkout/{id}/cancel, getCheckout GET /api/checkout/{id}.
C10_DeclaredRoutes ==
    \A n \in DOMAIN log :
        log[n].handler \in {"createCheckout", "updateCheckout", "cancelCheckout",
                            "getCheckout"} =>
            LET route == ToolRoute(log[n].handler,
                                   IF "session_id" \in DOMAIN log[n].input
                                   THEN log[n].input.session_id ELSE "")
            IN  /\ Len(log[n].sent) = 1
                /\ log[n].sent[1].method = route.method
                /\ log[n].sent[1].url = <<config.baseUrl>> \o route.path
                /\ log[n].handler = "updateCheckout" =>
                       /\ log[n].sent[1].hasBody
                       /\ "session_id" \notin DOMAIN log[n].sent[1].body.json

\* the result lets the checkout go on: a checkout URL to pay at, or the
\* answer of the complete endpoint
Proceeds(entry) ==
    /\ entry.outcome.kind = "return"
    /\ entry.outcome.value.status \in {"pending_payment", "ok"}

\* C11: once cancelCheckout has succeeded for a session, no later
\* completeCheckout call for that session, with or without a payment token,
\* returns a result that lets the checkout proceed to payment or completion.
C11_CanceledNotCompleted ==
    \A n \in DOMAIN log :
        /\ log[n].handler = "completeCheckout"
        /\ CanceledBefore(n, log[n].input.session_id)
        => ~Proceeds(log[n])

====
